---- MODULE Spec2Model ----
(***************************************************************************)
(* Model of the snake game of src/main.rs: the session state MainState,    *)
(* its two handlers update and key_down_event, and the pure helpers of     *)
(* Snake, SnakeCell, Apple, Bounds, GridPosition and Direction.            *)
(*                                                                         *)
(* Coordinates are f32 in the source but only ever hold small integers     *)
(* (lattice points), which f32 represents exactly; they are Int here.      *)
(* The two Instant fields last_move and last_key_moment are only ever read *)
(* through .elapsed(), so each is held as the value .elapsed() returns, in *)
(* milliseconds: "= Instant::now()" is "' = 0", a field a handler leaves   *)
(* alone is UNCHANGED, and the passing of time is the action Elapse.       *)
(* Sound, drawing and ctx.quit() (taken to return Ok) touch no state.      *)
(***************************************************************************)
EXTENDS Integers, Sequences, FiniteSets, TLC

VARIABLES snake, apple, score, delay, last_move, last_key_moment, game_over,
          last_key, straight, probe, verdict

vars == <<snake, apple, score, delay, last_move, last_key_moment, game_over,
          last_key, straight, probe, verdict>>

\* history, for the reader of a state: last_key is the arrow key that
\* key_down_event was last called with ("Other" before any); straight is
\* the number of advances made since the start as long as no key has changed
\* the direction and no apple has been eaten, and -1 from then on
history == <<last_key, straight>>

game == <<snake, apple, score, delay, last_move, last_key_moment, game_over>>

(* ---- bounds of the model ---- *)
\* the board is WidthSlots x HeightSlots cells (80 x 60 in the source)
WidthSlots == 3
HeightSlots == 2
\* longest body handed to the checks when they are exercised on their own
MaxProbeLen == 3
\* the score at which the session is cut off (a u32 in the source)
MaxScore == 2

(* ---- program constants ---- *)
CELL_RADIUS == 5
CELL_DIAMETER == 2 * CELL_RADIUS
BOARD_WIDTH == WidthSlots * CELL_DIAMETER
BOARD_HEIGHT == HeightSlots * CELL_DIAMETER
SLOW_SPEED == 125
FAST_SPEED == 25

Direction == {"Up", "Down", "Left", "Right"}
\* keycodes: the four arrows and one key that maps to None
Keycode == Direction \cup {"Other"}

Min(a, b) == IF a < b THEN a ELSE b

\* impl Not for Direction
Not(d) ==
  CASE d = "Up" -> "Down"
    [] d = "Down" -> "Up"
    [] d = "Left" -> "Right"
    [] d = "Right" -> "Left"

\* Locate::dist_to(a, b) < r, for integer coordinates and an integer r:
\* hypot(dx, dy) < r exactly when dx^2 + dy^2 < r^2
dist_to_lt(a, b, r) ==
  (b.x - a.x) * (b.x - a.x) + (b.y - a.y) * (b.y - a.y) < r * r

SnakeCell(x, y) == [x |-> x, y |-> y]

\* next_to stepping one radius instead of one diameter
next_to_radius(cell, dir) ==
  CASE dir = "Up" -> [cell EXCEPT !.y = cell.y - CELL_RADIUS]
    [] dir = "Down" -> [cell EXCEPT !.y = cell.y + CELL_RADIUS]
    [] dir = "Left" -> [cell EXCEPT !.x = cell.x - CELL_RADIUS]
    [] dir = "Right" -> [cell EXCEPT !.x = cell.x + CELL_RADIUS]

\* SnakeCell::next_to
next_to(cell, dir) ==
  CASE dir = "Up" -> [cell EXCEPT !.y = cell.y - CELL_DIAMETER]
    [] dir = "Down" -> [cell EXCEPT !.y = cell.y + CELL_DIAMETER]
    [] dir = "Left" -> [cell EXCEPT !.x = cell.x - CELL_DIAMETER]
    [] dir = "Right" -> [cell EXCEPT !.x = cell.x + CELL_DIAMETER]

\* random_x with both ends of the range drawn (gen_range(0, n) taken as 0..=n)
random_x_inclusive == {CELL_RADIUS + k * CELL_DIAMETER : k \in 0..(BOARD_WIDTH \div CELL_DIAMETER)}

\* GridPosition: the values random_x / random_y can return, and the middle
random_x == {CELL_RADIUS + k * CELL_DIAMETER : k \in 0..((BOARD_WIDTH \div CELL_DIAMETER) - 1)}
\* random_y without the CELL_RADIUS offset
random_y_no_offset == {k * CELL_DIAMETER : k \in 0..((BOARD_HEIGHT \div CELL_DIAMETER) - 1)}

random_y == {CELL_RADIUS + k * CELL_DIAMETER : k \in 0..((BOARD_HEIGHT \div CELL_DIAMETER) - 1)}
middle_x == CELL_RADIUS + ((BOARD_WIDTH \div CELL_DIAMETER) \div 2) * CELL_DIAMETER
middle_y == CELL_RADIUS + ((BOARD_HEIGHT \div CELL_DIAMETER) \div 2) * CELL_DIAMETER

\* Apple::new and Apple::eaten both draw a fresh random_x, random_y
Apple == {[x |-> ax, y |-> ay] : ax \in random_x, ay \in random_y}

\* Bounds::new
bounds == [width |-> BOARD_WIDTH, height |-> BOARD_HEIGHT]

\* check with closed comparisons: a cell on an edge passes
check_closed(b, coord) ==
  coord.x <= b.width /\ coord.x >= 0 /\ coord.y <= b.height /\ coord.y >= 0

\* Bounds::check
check(b, coord) ==
  coord.x < b.width /\ coord.x > 0 /\ coord.y < b.height /\ coord.y > 0

\* Snake::new with the second cell ahead of the head
SnakeNew_tail_ahead ==
  LET h == SnakeCell(middle_x, middle_y)
  IN [body |-> <<h, next_to(h, "Right")>>, curr_dir |-> "Right"]

\* Snake::new
SnakeNew ==
  LET h == SnakeCell(middle_x, middle_y)
  IN [body |-> <<h, next_to(h, "Left")>>, curr_dir |-> "Right"]

\* Snake::head (front().unwrap(): defined on a non-empty body only)
head(s) == s.body[1]

\* shorten_tail that pops nothing
shorten_tail_none(s) == s

\* shorten_tail that pops two cells
shorten_tail_twice(s) ==
  [s EXCEPT !.body = SubSeq(s.body, 1, Len(s.body) - 2)]

\* Snake::shorten_tail: VecDeque::pop_back, which does nothing when empty
shorten_tail(s) ==
  IF Len(s.body) = 0 THEN s
  ELSE [s EXCEPT !.body = SubSeq(s.body, 1, Len(s.body) - 1)]

\* Snake::advance
advance(s) == [s EXCEPT !.body = <<next_to(head(s), s.curr_dir)>> \o s.body]

\* Snake::bounds_check
bounds_check(s, b) == \A i \in 1..Len(s.body) : check(b, s.body[i])

\* Snake::body_check: counts the cells (the head among them) closer than one
\* radius to the head
collisions(s) ==
  Cardinality({i \in 1..Len(s.body) : dist_to_lt(s.body[i], head(s), CELL_RADIUS)})

\* body_check that tolerates one overlap besides the head itself
body_check_lenient(s) == collisions(s) <= 2

body_check(s) == collisions(s) <= 1

\* the elapsed times are compared with delay only, and delay <= SLOW_SPEED:
\* past SLOW_SPEED every comparison has the same outcome
ElapsedCap == SLOW_SPEED
\* the clock grain: one step takes an idle clock between the two delays, a
\* second one past the slow delay, so that every outcome of the comparisons
\* of update is met
Grain == SLOW_SPEED - FAST_SPEED

\* probe bodies: cells on, next to and off the board edges, closer than,
\* exactly at and further than one radius from each other
ProbeCells == {SnakeCell(px, py) : px \in {-1, 0, 1, 4, BOARD_WIDTH}, py \in {0, 1, 4, BOARD_HEIGHT}}
ProbeBodies == UNION {[1..n -> ProbeCells] : n \in 1..MaxProbeLen}

(* ---- the session ---- *)
\* MainState::new; probe and verdict are idle in the session
Init ==
  /\ snake = SnakeNew
  /\ apple \in Apple
  /\ score = 0
  /\ delay = SLOW_SPEED
  /\ last_move = 0
  /\ last_key_moment = 0
  /\ game_over = FALSE
  /\ last_key = "Other"
  /\ straight = 0
  /\ probe = SnakeNew
  /\ verdict = [bounds |-> <<>>, body |-> <<>>, tail |-> <<>>]

\* time passes between two events
Elapse ==
  /\ last_move' = Min(last_move + Grain, ElapsedCap)
  /\ last_key_moment' = Min(last_key_moment + Grain, ElapsedCap)
  /\ UNCHANGED <<snake, apple, score, delay, game_over, history, probe, verdict>>

\* the flag test of update dropped, and inverted
active_always == TRUE
active_inverted == game_over

\* update, line 294: if !self.game_over
active == ~game_over

\* update, lines 295-297: the delay in force after the decay step
decayed == IF last_key_moment >= delay THEN SLOW_SPEED ELSE delay

\* the advance gated on the fast delay whatever the delay is
due_fast == last_move >= FAST_SPEED

\* update, line 298: the tick performs an advance
due == last_move >= decayed

\* the session ends on leaving the board only
lost_outside_only(s) == ~bounds_check(s, bounds)

\* update, line 301: the advanced snake s ends the session
lost(s) == ~bounds_check(s, bounds) \/ ~body_check(s)

\* update, line 310: the apple is within one diameter of the head of s
eats(s) == dist_to_lt(apple, head(s), CELL_DIAMETER)

\* MainState::update
Update ==
  /\ UNCHANGED <<probe, verdict, last_key_moment, last_key>>
  /\ IF active
       THEN /\ delay' = decayed
            /\ IF due
                 THEN LET moved == advance(snake)
                      IN /\ last_move' = 0
                         /\ game_over' = lost(moved)
                         /\ straight' = IF straight < 0 \/ eats(moved)
                                          THEN -1 ELSE straight + 1
                         /\ IF eats(moved)
                              THEN /\ score < MaxScore
                                   /\ apple' \in Apple
                                   /\ score' = score + 1
                                   /\ snake' = moved
                              ELSE /\ snake' = shorten_tail(moved)
                                   /\ UNCHANGED <<apple, score>>
                 ELSE UNCHANGED <<snake, apple, score, last_move, game_over,
                                  straight>>
       ELSE UNCHANGED <<snake, apple, score, delay, last_move, game_over,
                        straight>>

\* every direction is taken, reversals too
accepts_any(dir) == TRUE

\* key_down_event, lines 341-342: dir is not the opposite of the direction
accepts(dir) == dir /= Not(snake.curr_dir)

\* the delay of a key whatever repeat says
key_delay_slow(repeat) == SLOW_SPEED

\* key_down_event, line 343: the delay an accepted key sets
key_delay(repeat) == IF repeat THEN FAST_SPEED ELSE SLOW_SPEED

\* MainState::key_down_event
KeyDown(keycode, repeat) ==
  /\ last_key' = IF keycode \in Direction THEN keycode ELSE last_key
  /\ UNCHANGED <<apple, score, last_move, game_over, probe, verdict>>
  /\ IF keycode \in Direction /\ accepts(keycode)
       THEN /\ delay' = key_delay(repeat)
            /\ last_key_moment' = 0
            /\ snake' = [snake EXCEPT !.curr_dir = keycode]
            /\ straight' = IF keycode = snake.curr_dir THEN straight ELSE -1
       ELSE UNCHANGED <<snake, delay, last_key_moment, straight>>

key_down_event == \E keycode \in Keycode, repeat \in BOOLEAN : KeyDown(keycode, repeat)

Next == Update \/ key_down_event \/ Elapse

Spec == Init /\ [][Next]_vars

(* ---- the session in which no input is accepted ---- *)
\* a key that key_down_event gives no effect: a reversal or no arrow
ignored_key ==
  \E keycode \in {Not(snake.curr_dir), "Other"}, repeat \in BOOLEAN : KeyDown(keycode, repeat)

NextIdle == Update \/ ignored_key \/ Elapse

\* the event loop calls update on every frame, and time passes
LiveSpec == Init /\ [][NextIdle]_vars /\ WF_vars(Update) /\ WF_vars(Elapse)

(* ---- the checks and shorten_tail of Snake on bodies of any shape ---- *)
InitProbe ==
  /\ snake = SnakeNew
  /\ apple = [x |-> middle_x, y |-> middle_y]
  /\ score = 0
  /\ delay = SLOW_SPEED
  /\ last_move = 0
  /\ last_key_moment = 0
  /\ game_over = FALSE
  /\ last_key = "Other"
  /\ straight = 0
  /\ probe \in {[body |-> b, curr_dir |-> "Right"] : b \in ProbeBodies}
  /\ verdict = [bounds |-> <<>>, body |-> <<>>, tail |-> <<>>]

ProbeBounds ==
  /\ verdict.bounds = <<>>
  /\ verdict' = [verdict EXCEPT !.bounds = <<bounds_check(probe, bounds)>>]
  /\ UNCHANGED <<game, history, probe>>

ProbeBody ==
  /\ verdict.body = <<>>
  /\ verdict' = [verdict EXCEPT !.body = <<body_check(probe)>>]
  /\ UNCHANGED <<game, history, probe>>

\* Snake::shorten_tail applied to the probe; the verdict keeps the body left
ProbeShorten ==
  /\ verdict.tail = <<>>
  /\ verdict' = [verdict EXCEPT !.tail = <<shorten_tail(probe).body>>]
  /\ UNCHANGED <<game, history, probe>>

NextProbe == ProbeBounds \/ ProbeBody \/ ProbeShorten

ProbeSpec == InitProbe /\ [][NextProbe]_vars

(* ---- properties ---- *)
\* the step is a tick that performs an advance: only update changes the
\* body, and an advance always does
AdvanceStep == snake'.body /= snake.body /\ Update

\* the cell has a coordinate on or past an edge of the play field
Outside(c) == c.x <= 0 \/ c.x >= BOARD_WIDTH \/ c.y <= 0 \/ c.y >= BOARD_HEIGHT

\* the head of body b is closer than one radius to another cell of b
HeadOverlaps(b) == \E i \in 2..Len(b) : dist_to_lt(b[1], b[i], CELL_RADIUS)

\* the cell is one radius plus a multiple of the diameter along both axes
OnLattice(c) ==
  /\ (c.x - CELL_RADIUS) % CELL_DIAMETER = 0
  /\ (c.y - CELL_RADIUS) % CELL_DIAMETER = 0

\* C1: once game_over is true, a tick (update) leaves the whole session
\* state unchanged: snake body and direction, food, score, delay, both
\* timestamps, and game_over itself, which so stays true.
C1_TickAfterGameOverIsNoOp ==
  [][/\ (game_over /\ Update) => UNCHANGED game
     /\ game_over => game_over']_vars

\* the session is over and the clock would let an active session advance
C1_Witness == game_over /\ last_move >= SLOW_SPEED

\* C2 (as claimed): once game_over is true, every input event leaves the
\* current direction, the delay and the last-input timestamp unchanged.
C2_InputAfterGameOverIgnored ==
  [][(game_over /\ key_down_event) =>
       (snake'.curr_dir = snake.curr_dir /\ delay' = delay
          /\ last_key_moment' = last_key_moment)]_vars

\* C3: for every direction d, while the current direction is d an input
\* requesting the opposite of d leaves the direction d and the body untouched.
C3_ReversalRejected ==
  [][(\E repeat \in BOOLEAN : KeyDown(Not(snake.curr_dir), repeat))
       => (snake'.curr_dir = snake.curr_dir /\ snake'.body = snake.body)]_vars

\* the arrow key handled last asked for the opposite of the direction, which
\* an accepted key would have replaced
C3_Witness == last_key \in Direction /\ last_key = Not(snake.curr_dir)

\* C4 (as claimed): no advance puts the new head on the cell that was
\* immediately behind the head, whatever inputs came between two advances.
C4_NeverInvertsHeading ==
  [][AdvanceStep => head(snake') /= snake.body[2]]_vars

\* C5: a tick that performs an advance sets game_over exactly when, right
\* after the advance and before the tail is shortened, a body cell is outside
\* the play field or the head overlaps another body cell; and nothing but
\* such a tick sets game_over.
C5_GameOverIffFatalAdvance ==
  [][/\ AdvanceStep =>
          (game_over' <=>
             LET b == <<head(snake')>> \o snake.body
             IN (\E i \in 1..Len(b) : Outside(b[i])) \/ HeadOverlaps(b))
     /\ (~game_over /\ game_over') => AdvanceStep]_vars

\* the session ended on a tick by the head running into the body, every
\* cell being inside the play field
C5_Witness ==
  /\ game_over
  /\ Len(snake.body) = 4
  /\ \A i \in 1..Len(snake.body) : ~Outside(snake.body[i])

\* C6: a tick that performs an advance after which the food is not reached
\* keeps the body length: one cell pushed at the front, one popped at the back.
C6_LengthKeptWithoutFood ==
  [][(AdvanceStep /\ ~dist_to_lt(apple, head(snake'), CELL_DIAMETER)) =>
       /\ Len(snake'.body) = Len(snake.body)
       /\ Tail(snake'.body) = SubSeq(snake.body, 1, Len(snake.body) - 1)]_vars

C6_Witness ==
  /\ last_move = 0
  /\ score = 0 /\ snake.body /= SnakeNew.body /\ Len(snake.body) = 2

\* C7: a tick that performs an advance after which the head is within one
\* diameter of the food grows the body by exactly one (the tail is kept),
\* adds exactly one to the score, and puts the food on a lattice position
\* strictly inside the bounds.
C7_EatingGrowsScoresRelocates ==
  [][(AdvanceStep /\ dist_to_lt(apple, head(snake'), CELL_DIAMETER)) =>
       /\ Len(snake'.body) = Len(snake.body) + 1
       /\ Tail(snake'.body) = snake.body
       /\ score' = score + 1
       /\ OnLattice(apple') /\ ~Outside(apple')]_vars

C7_Witness ==
  /\ last_move = 0
  /\ score = 1 /\ Len(snake.body) = 3

\* C8: when no input is ever accepted and ticks keep firing, the snake runs
\* off the right edge, the session reaches game over and stays there.
C8_IdleSessionEnds == <>[](game_over /\ head(snake).x >= BOARD_WIDTH)

C8_Witness ==
  /\ game_over /\ head(snake).x >= BOARD_WIDTH
  /\ snake.curr_dir = "Right"
  /\ last_move >= SLOW_SPEED

\* C9: bounds_check is false exactly when some body cell has x <= 0,
\* x >= the board width, y <= 0 or y >= the board height.
C9_BoundsCheckOpenInterval ==
  verdict.bounds /= <<>> =>
    (verdict.bounds[1] = FALSE <=> \E i \in 1..Len(probe.body) : Outside(probe.body[i]))

\* a cell exactly on the right edge, next to one strictly inside
C9_Witness ==
  /\ verdict.bounds = <<FALSE>>
  /\ probe.body = <<SnakeCell(1, 1), SnakeCell(BOARD_WIDTH, 1)>>

\* C10: body_check is true exactly when the head is closer than one radius
\* to no body cell other than itself, for every body of length >= 1.
C10_BodyCheckHeadOverlap ==
  verdict.body /= <<>> => (verdict.body[1] <=> ~HeadOverlaps(probe.body))

\* a body of three cells of which exactly one, not the head, overlaps the head
C10_Witness ==
  /\ verdict.body = <<FALSE>>
  /\ Len(probe.body) = 3
  /\ dist_to_lt(probe.body[1], probe.body[2], CELL_RADIUS)
  /\ ~dist_to_lt(probe.body[1], probe.body[3], CELL_RADIUS)

\* C11 (as claimed): every arrow key received while the session is active,
\* a rejected reversal included, sets the delay to the fast value if it is a
\* repeat and to the slow value otherwise, and refreshes the last-input
\* timestamp.
C11_EveryInputSetsDelay ==
  [][\A keycode \in Direction, repeat \in BOOLEAN :
       (~game_over /\ KeyDown(keycode, repeat)) =>
         /\ delay' = (IF repeat THEN FAST_SPEED ELSE SLOW_SPEED)
         /\ last_key_moment' = 0]_vars

\* C11 (amended): an arrow key received while the session is active that is
\* not a reversal sets the delay to the fast value if it is a repeat and to
\* the slow value otherwise and refreshes the last-input timestamp; a
\* rejected reversal leaves the delay and the last-input timestamp unchanged.
C11_AcceptedInputSetsDelay ==
  [][\A keycode \in Direction, repeat \in BOOLEAN :
       (~game_over /\ KeyDown(keycode, repeat)) =>
         IF keycode /= Not(snake.curr_dir)
           THEN /\ delay' = (IF repeat THEN FAST_SPEED ELSE SLOW_SPEED)
                /\ last_key_moment' = 0
           ELSE delay' = delay /\ last_key_moment' = last_key_moment]_vars

\* the arrow key handled last was accepted as a repeat, and no time has
\* passed since
C11_Witness ==
  /\ ~game_over
  /\ last_key = snake.curr_dir
  /\ delay = FAST_SPEED /\ last_key_moment = 0

\* C12: a tick of an active session moves the snake only if the time since
\* the last advance is at least the delay in force after the tick's decay
\* step; when that time is smaller, the tick leaves the snake body, the
\* food, the score and the last-advance timestamp unchanged.
C12_TickGatedByDelay ==
  [][(Update /\ ~game_over) =>
       /\ (snake'.body /= snake.body => last_move >= delay')
       /\ (last_move < delay' =>
             /\ snake'.body = snake.body
             /\ apple' = apple /\ score' = score
             /\ last_move' = last_move)]_vars

\* an active session away from its start whose last advance is more recent
\* than the slow delay, with a decay due that raises the fast delay
C12_Witness ==
  /\ ~game_over
  /\ delay = FAST_SPEED /\ last_key_moment >= FAST_SPEED
  /\ last_move >= FAST_SPEED /\ last_move < SLOW_SPEED
  /\ snake.body /= SnakeNew.body

\* C13: shorten_tail on a body of exactly one cell is a no-op, the body
\* still has that one cell afterwards; on a longer body it removes exactly
\* the oldest (back) cell.
C13_ShortenTailSafeOnMinimalBody ==
  verdict.tail /= <<>> =>
    IF Len(probe.body) = 1
      THEN verdict.tail[1] = probe.body
      ELSE verdict.tail[1] = SubSeq(probe.body, 1, Len(probe.body) - 1)

\* C14: the starting snake has exactly 2 cells, heading Right: the head at
\* the lattice slot that holds the centre of the board, the tail exactly one
\* cell diameter to the left of the head with the same y.
C14_StartingSnake ==
  straight = 0 =>
    /\ Len(snake.body) = 2
    /\ snake.curr_dir = "Right"
    /\ OnLattice(snake.body[1])
    /\ snake.body[1].x - CELL_RADIUS <= BOARD_WIDTH \div 2
    /\ BOARD_WIDTH \div 2 < snake.body[1].x + CELL_RADIUS
    /\ snake.body[1].y - CELL_RADIUS <= BOARD_HEIGHT \div 2
    /\ BOARD_HEIGHT \div 2 < snake.body[1].y + CELL_RADIUS
    /\ snake.body[2].x = snake.body[1].x - CELL_DIAMETER
    /\ snake.body[2].y = snake.body[1].y

\* the session has started and time has passed, but no advance has been
\* made and no key has turned the snake
C14_Witness == straight = 0 /\ last_move > 0 /\ last_key = "Right"

C16_FoodAndBodyOnLattice ==
  /\ OnLattice(apple) /\ ~Outside(apple)
  /\ \A i \in 1..Len(snake.body) : OnLattice(snake.body[i])

\* the food has been relocated twice and the snake has grown to 4 cells
C16_Witness == score = 2 /\ Len(snake.body) = 4 /\ last_move = 0

\* C17: in every reachable state in which game_over is false, no two cells
\* of the snake body coincide: every pair of distinct body cells is at
\* least one cell radius apart.
C17_NoTwoCellsCoincide ==
  ~game_over =>
    \A i, j \in 1..Len(snake.body) :
      i < j => ~dist_to_lt(snake.body[i], snake.body[j], CELL_RADIUS)

\* an active session whose snake has grown to 4 cells and has just advanced
\* after a turn
C17_Witness ==
  /\ ~game_over /\ Len(snake.body) = 4 /\ last_move = 0
  /\ snake.body[1].x /= snake.body[3].x /\ snake.body[1].y /= snake.body[3].y

\* C18: the snake body is never empty in any reachable state, the state
\* after the tick that ends the session included, so that head() always
\* finds a front cell.
C18_BodyNeverEmpty == Len(snake.body) >= 1

\* the tick that ended the session has just run
C18_Witness == game_over /\ last_move = 0 /\ Len(snake.body) = 2

\* C19: the tick that takes the session to game over consumes no food: the
\* score and the food position are unchanged by it, even when the food lies
\* on the cell where the head collided.
C19_GameOverTickEatsNothing ==
  [][(~game_over /\ game_over') => (score' = score /\ apple' = apple)]_vars

\* C20: in every reachable state, the game-over state included, the body
\* length equals 2 plus the score.
C20_LengthIsTwoPlusScore == Len(snake.body) = 2 + score

\* the session has ended after one apple was eaten and a later tick that
\* ate nothing
C20_Witness ==
  game_over /\ score = 1 /\ Len(snake.body) = 3 /\ last_move >= SLOW_SPEED
====
